---- MODULE Spec2Model ----
(***************************************************************************)
(* ektest: the progress store (lib/progress.js), the test registrar        *)
(* (lib/test.js), the runner and reporter (lib/summary.js), the bootstrap  *)
(* script generated by index.js and the assertion engine (lib/expect.js).  *)
(*                                                                         *)
(* Log indices are 0-based as in the JavaScript source; the entry with     *)
(* index i is logs[i + 1] of the TLA+ sequence.                            *)
(***************************************************************************)
EXTENDS Integers, Sequences, FiniteSets, TLC

\* ------------------------------------------------------------------ bounds
MaxRegistrations == 3      \* calls of test() and test.skip() made by the test files
MaxExpectOps == 3
MaxWebCalls == 4
MaxKeyTokens == 5
MaxLogEntries == 3          \* Expect objects created plus matcher calls made

\* --------------------------------------------------------------- constants
\* lib/config.js is not part of the sources; the three verbosity levels are
\* the ones index.js selects from the command line.
VERBOSE_TYPE_NONE == "none"
VERBOSE_TYPE_SUMMARY == "summary"
VERBOSE_TYPE_DETAILED == "detailed"
Verbosity == {VERBOSE_TYPE_NONE, VERBOSE_TYPE_SUMMARY, VERBOSE_TYPE_DETAILED}

\* config.file as the bootstrap script sets it: unset ("") or a test file's
\* relative path.  Paths end in ".test.js", so no key is an array index and
\* for-in visits the keys of progress.tests in insertion order.
NoFile == ""
TestFiles == {"a"}
ConfigFiles == {NoFile} \cup TestFiles
FileKeys == {"default"} \cup TestFiles

\* What a test body does when it is invoked: it may call abort() and it
\* either returns or throws.
Bodies == {[throws |-> FALSE, aborts |-> FALSE],
           [throws |-> TRUE, aborts |-> FALSE],
           [throws |-> FALSE, aborts |-> TRUE],
           [throws |-> TRUE, aborts |-> TRUE]}

VARIABLES
    config,        \* lib/config.js object: file, verbose
    progress,      \* lib/progress.js store: logs, tests, fails, count, failed, skipped, aborted
    pc,            \* position of the bootstrap script / summary()
    fileIdx,       \* summary: position of the for-in loop over progress.tests
    testIdx,       \* summary: position of the for-of loop over progress.tests[file]
    isFirst,       \* summary: local isFirst
    index,         \* summary: local index (the file's title entry)
    closure,       \* the test closure being awaited: its locals
    invoked,       \* history: titles of the closures invoked, in order
    ended,         \* history: closures whose body has completed, with outcome
    out,           \* console transcript: stream and line
    cleanupCalls,  \* number of calls of cleanup()
    exitCode,      \* status the test process terminated with (-1: running)
    cliExitCode,   \* status the CLI process terminated with (-1: running)
    atStart,       \* history: the progress store when summary() was called
    objects,       \* lib/expect.js: the Expect objects created, by identity
    call,          \* lib/expect.js: the last call of expect() or of a matcher
    ncalls,        \* number of matcher calls made
    web,           \* lib/web-app.js: browsers launched, setupCache, globalThis handles, last call
    kp,            \* lib/web-app.js: a call of keyPress, its argument and the key events sent
    store,         \* lib/progress.js: the last direct call of addLog or setLog
    op             \* history: the operation the last step performed

vars == <<config, progress, pc, fileIdx, testIdx, isFirst, index, closure,
          invoked, ended, out, cleanupCalls, exitCode, cliExitCode, atStart,
          objects, call, ncalls, web, kp, store, op>>

\* ------------------------------------------------------------ log messages
\* A message is kept as what it says, with its length in characters.
Msg(kind, file, title, len) ==
    [kind |-> kind, file |-> file, title |-> title, len |-> len]

ColorLen == 9          \* "\x1b[3Xm" (5) and "\x1b[0m" (4) around the text
FileNameLen(file) == IF file = "default" THEN 7 ELSE 9
TitleLen == 2
ElapsedLen == 7        \* "0.00 ms"

\* Array(n).join("-"): n - 1 dashes, none for n = 0
Dashes(n) == Msg("dashes", "", 0, IF n > 0 THEN n - 1 ELSE 0)

\* ------------------------------------------------------------- progress.js
addLog(P, message, type, title) ==
    LET pushed == Append(P.logs, [type |-> type, message |-> message, title |-> title])
    IN [P EXCEPT !.logs =
            IF title
            THEN Append(pushed, [type |-> "log", message |-> Dashes(message.len), title |-> TRUE])
            ELSE pushed]

\* variant: the length after the push is returned
addLogIndex_afterPush(P) == Len(P.logs) + 1

\* the index addLog returns
addLogIndex(P) == Len(P.logs)

setLogInBounds(P, idx) == idx >= 0 /\ idx < Len(P.logs)

\* variant: the error is swallowed
setLogThrows_never(P, idx) == FALSE

\* setLog throws: the else branch
setLogThrows(P, idx) == ~setLogInBounds(P, idx)

\* variant: the entry is taken out of the buffer instead of being rewritten
setLog_removes(P, idx, message, type) ==
    IF setLogInBounds(P, idx)
    THEN [P EXCEPT !.logs = SubSeq(@, 1, idx) \o SubSeq(@, idx + 2, Len(@))]
    ELSE P

\* setLog for an index in bounds; out of bounds it throws and changes nothing
setLog(P, idx, message, type) ==
    IF setLogInBounds(P, idx)
    THEN LET written == [P.logs EXCEPT ![idx + 1] =
                            [type |-> type, message |-> message, title |-> @.title]]
             sep == [type |-> "log", message |-> Dashes(message.len), title |-> TRUE]
         IN [P EXCEPT !.logs =
                IF written[idx + 1].title = TRUE
                THEN IF idx + 2 <= Len(written)
                     THEN [written EXCEPT ![idx + 2] = sep]
                     ELSE Append(written, sep)
                ELSE written]
    ELSE P

\* --------------------------------------------------- the tests object
\* progress.tests: an object whose keys are kept in insertion order, as a
\* sequence of [file, list] pairs.
HasKey(T, file) == \E i \in 1..Len(T) : T[i].file = file

KeyPos(T, file) == CHOOSE i \in 1..Len(T) : T[i].file = file

RECURSIVE SumLists(_)
SumLists(T) == IF T = <<>> THEN 0 ELSE Len(Head(T).list) + SumLists(Tail(T))

Registered == SumLists(progress.tests)

AllClosures == UNION {{progress.tests[i].list[j] : j \in 1..Len(progress.tests[i].list)}
                        : i \in 1..Len(progress.tests)}

RECURSIVE SumFails(_, _)
SumFails(F, keys) ==
    IF keys = {} THEN 0
    ELSE LET k == CHOOSE x \in keys : TRUE IN F[k] + SumFails(F, keys \ {k})

\* ------------------------------------------------------------- lib/test.js
\* test(title, fn): the closure is pushed on the list of the file configured now
test_unshift(T, cfg, title, fn) ==
    LET file == IF cfg.file # NoFile THEN cfg.file ELSE "default"
        withKey == IF HasKey(T, file) THEN T ELSE Append(T, [file |-> file, list |-> <<>>])
        c == [title |-> title, file |-> file, fn |-> fn]
    IN [withKey EXCEPT ![KeyPos(withKey, file)].list = <<c>> \o @]

test(T, cfg, title, fn) ==
    LET file == IF cfg.file # NoFile THEN cfg.file ELSE "default"
        withKey == IF HasKey(T, file) THEN T ELSE Append(T, [file |-> file, list |-> <<>>])
        c == [title |-> title, file |-> file, fn |-> fn]
    IN [withKey EXCEPT ![KeyPos(withKey, file)].list = Append(@, c)]

\* variant: the test is counted only when its pending entry is opened
closureBegin_uncounted(P, verbose, title) ==
    IF verbose # VERBOSE_TYPE_SUMMARY
    THEN addLog([P EXCEPT !.count = @ + 1],
                Msg("testing", "", title, ColorLen + 2 + 9 + TitleLen), "log", FALSE)
    ELSE P

\* the closure up to the call of fn: lines 18-22
closureBegin(P, verbose, title) ==
    LET counted == [P EXCEPT !.count = @ + 1]
    IN IF verbose # VERBOSE_TYPE_SUMMARY
       THEN addLog(counted, Msg("testing", "", title, ColorLen + 2 + 9 + TitleLen), "log", FALSE)
       ELSE counted

\* variant: the index kept is the one of the entry before the pending one
closureIndex_previous(P, verbose) ==
    IF verbose # VERBOSE_TYPE_SUMMARY THEN addLogIndex(P) - 1 ELSE -1

closureIndex(P, verbose) ==
    IF verbose # VERBOSE_TYPE_SUMMARY THEN addLogIndex(P) ELSE -1

\* variant: the failure is counted under the key "default"
closureCatch_default(P, file) ==
    LET F == IF "default" \in DOMAIN P.fails THEN P.fails ELSE P.fails @@ ("default" :> 0)
    IN [P EXCEPT !.failed = @ + 1, !.fails = [F EXCEPT !["default"] = @ + 1]]

\* the catch block's counters: lines 35-39
closureCatch(P, file) ==
    LET F == IF file \in DOMAIN P.fails THEN P.fails ELSE P.fails @@ (file :> 0)
    IN [P EXCEPT !.failed = @ + 1, !.fails = [F EXCEPT ![file] = @ + 1]]

\* variant: a signalled abort cuts the running closure short
closureRejects_onAbort(P, idx, threw) == P.aborted \/ (threw /\ ~setLogInBounds(P, idx))

\* the catch block's setLog throws, and the closure's promise rejects
closureRejects(P, idx, threw) == threw /\ ~setLogInBounds(P, idx)

\* variant: the blank entry is appended on the success path only
closureEnd_blankOnPass(P, verbose, c, idx, threw) ==
    LET tried ==
            IF threw
            THEN setLog(closureCatch(P, c.file), idx,
                        Msg("failed", "", c.title, 2 * ColorLen + 2 + TitleLen + 5 + ColorLen + 2 + 5),
                        "error")
            ELSE IF verbose # VERBOSE_TYPE_SUMMARY
                 THEN setLog(P, idx,
                             Msg("passed", "", c.title, ColorLen + 2 + TitleLen + 1 + ColorLen + 5 + ElapsedLen),
                             "log")
                 ELSE P
    IN IF closureRejects(P, idx, threw) THEN tried
       ELSE IF verbose = VERBOSE_TYPE_DETAILED /\ ~threw
            THEN addLog(tried, Msg("blank", "", 0, 0), "log", FALSE)
            ELSE tried

\* the closure after fn has returned or thrown: lines 26-48
closureEnd(P, verbose, c, idx, threw) ==
    LET tried ==
            IF threw
            THEN setLog(closureCatch(P, c.file), idx,
                        Msg("failed", "", c.title, 2 * ColorLen + 2 + TitleLen + 5 + ColorLen + 2 + 5),
                        "error")
            ELSE IF verbose # VERBOSE_TYPE_SUMMARY
                 THEN setLog(P, idx,
                             Msg("passed", "", c.title, ColorLen + 2 + TitleLen + 1 + ColorLen + 5 + ElapsedLen),
                             "log")
                 ELSE P
    IN IF closureRejects(P, idx, threw) THEN tried
       ELSE IF verbose = VERBOSE_TYPE_DETAILED
            THEN addLog(tried, Msg("blank", "", 0, 0), "log", FALSE)
            ELSE tried

\* test.skip(message)
testSkip_asTitle(P) ==
    addLog([P EXCEPT !.skipped = @ + 1],
           Msg("skipped", "", 0, 2 * ColorLen + 10 + 1 + 1), "log", TRUE)

testSkip(P) ==
    addLog([P EXCEPT !.skipped = @ + 1],
           Msg("skipped", "", 0, 2 * ColorLen + 10 + 1 + 1), "log", FALSE)

\* abort(message): declared in index.d.ts, its code is not part of the sources
abort(P) == [P EXCEPT !.aborted = TRUE]

\* ---------------------------------------------------------- lib/summary.js
\* the head of the for-in body: lines 15-33
fileBlank(P, verbose, first) ==
    IF ~first /\ verbose # VERBOSE_TYPE_DETAILED /\ verbose # VERBOSE_TYPE_SUMMARY
    THEN addLog(P, Msg("blank", "", 0, 0), "log", TRUE)
    ELSE P

fileBegin(P, verbose, first, file) ==
    addLog(fileBlank(P, verbose, first),
           Msg("file", file, 0, ColorLen + FileNameLen(file) + 1),
           "log", verbose # VERBOSE_TYPE_SUMMARY)

fileIndex(P, verbose, first) == addLogIndex(fileBlank(P, verbose, first))

\* after a test has been awaited: lines 40-46
haveFailedTests(P, file) == file \in DOMAIN P.fails /\ P.fails[file] > 0

fileAfterTest(P, verbose, file, idx) ==
    LET len == 3 * ColorLen + 1 + 1 + FileNameLen(file) + 1 + 2 + ElapsedLen + 1
                 + (IF verbose = VERBOSE_TYPE_SUMMARY THEN 0 ELSE 1)
    IN IF haveFailedTests(P, file)
       THEN setLog(P, idx, Msg("fileFailed", file, 0, len), "error")
       ELSE setLog(P, idx, Msg("filePassed", file, 0, len), "log")

\* the report: lines 57-92
Line(stream, kind, message, indent, a, b) ==
    [stream |-> stream, kind |-> kind, message |-> message, indent |-> indent, a |-> a, b |-> b]

NoMsg == Msg("", "", 0, 0)

RECURSIVE renderLogs(_, _)
renderLogs(logs, verbose) ==
    IF logs = <<>> THEN <<>>
    ELSE LET e == Head(logs)
             indent == ~e.title /\ verbose # VERBOSE_TYPE_SUMMARY
             rest == renderLogs(Tail(logs), verbose)
         IN IF e.type = "log" THEN <<Line("stdout", "entry", e.message, indent, 0, 0)>> \o rest
            ELSE IF e.type = "error" THEN <<Line("stderr", "entry", e.message, indent, 0, 0)>> \o rest
            ELSE rest

\* variant: the passed line prints the failure counter
aggregateLine_failedCount(P) ==
    IF P.failed > 0 THEN Line("stdout", "failedLine", NoMsg, FALSE, P.failed, P.count)
    ELSE IF P.aborted THEN Line("stdout", "abortedLine", NoMsg, FALSE, 0, 0)
    ELSE Line("stdout", "passedLine", NoMsg, FALSE, P.failed, 0)

aggregateLine(P) ==
    IF P.failed > 0 THEN Line("stdout", "failedLine", NoMsg, FALSE, P.failed, P.count)
    ELSE IF P.aborted THEN Line("stdout", "abortedLine", NoMsg, FALSE, 0, 0)
    ELSE Line("stdout", "passedLine", NoMsg, FALSE, P.count, 0)

skippedLine(P) ==
    IF P.skipped > 0 THEN <<Line("stdout", "skippedLine", NoMsg, FALSE, P.skipped, 0)>> ELSE <<>>

\* variant: the buffered entries are rendered after the aggregate line
report_entriesLast(P, verbose) ==
    <<aggregateLine(P)>> \o renderLogs(P.logs, verbose) \o skippedLine(P)
        \o <<Line("stdout", "durationLine", NoMsg, FALSE, 0, 0)>>

report(P, verbose) ==
    renderLogs(P.logs, verbose) \o <<aggregateLine(P)>> \o skippedLine(P)
        \o <<Line("stdout", "durationLine", NoMsg, FALSE, 0, 0)>>

\* the abort checks of the two loops: line 36 and line 50
abortedInList_ignored(P) == FALSE

abortedInList(P) == P.aborted

abortedAfterList(P) == P.aborted

\* the exit status: lines 97-103
exitStatus(P) == IF P.aborted THEN 2 ELSE IF P.failed > 0 THEN 1 ELSE 0

\* ---------------------------------------------------------- lib/expect.js
\* JavaScript values: t is the kind of value, x its content (the digits of a
\* number, the characters of a string or of a regular expression's pattern,
\* the elements of an array, the keys of an object) and r the identity of
\* an object (0 for a primitive).  Characters: 1 is "a", 2 is "b", 3 is ","
\* and 9 stands for any other character.  Array elements and object keys
\* are one-character strings, held as their character.
Val(t, x, r) == [t |-> t, x |-> x, r |-> r]

Undefined == Val("undefined", <<>>, 0)
Null == Val("null", <<>>, 0)
NaN == Val("nan", <<>>, 0)
Str(x) == Val("string", x, 0)
Num(n) == Val("number", <<n>>, 0)

Primitives == {Undefined, Null, NaN, Val("boolean", <<0>>, 0), Num(1),
               Str(<<>>), Str(<<1>>), Str(<<1, 2>>)}

\* the values handed to expect()
Values == Primitives \cup
          {Val("array", <<>>, 1), Val("array", <<1>>, 1),
           Val("object", <<>>, 1), Val("object", <<1>>, 1), Val("regex", <<1>>, 1)}

\* the arguments handed to a matcher: primitives, the same object as the
\* value (r = 1) or another object of equal or different content (r = 2)
Arguments == {Undefined, NaN, Num(1), Str(<<>>), Str(<<1>>), Str(<<2>>),
              Val("array", <<>>, 2), Val("array", <<1>>, 1), Val("array", <<1>>, 2), Val("array", <<1, 2>>, 2),
              Val("array", <<2, 1>>, 2), Val("object", <<1>>, 2), Val("regex", <<1>>, 2)}

Classes == {Val("class", <<k>>, 1) : k \in {1, 2, 3}}   \* Array, Object, RegExp

Matchers == {"toBe", "toEqual", "toContain", "toBeIn", "toBeTruthy", "toBeFalsy",
             "toBeDefined", "toBeNull", "toBeGreaterThan", "toBeLessThan",
             "toBeInstanceOf", "toBeArray", "toBeObject", "toBeString", "toBeNumber",
             "toBeBoolean", "toHave", "toMatch", "toBeEmpty"}

\* the arguments a matcher is called with
ArgumentsOf(m) ==
    IF m \in {"toBe", "toEqual", "toContain", "toBeIn", "toHave", "toMatch"} THEN Arguments
    ELSE IF m \in {"toBeGreaterThan", "toBeLessThan"} THEN {Num(0), Num(1), NaN}
    ELSE IF m = "toBeInstanceOf" THEN Classes
    ELSE {Undefined}

\* typeof v
typeOf(v) ==
    CASE v.t = "undefined" -> "undefined"
      [] v.t = "boolean" -> "boolean"
      [] v.t \in {"number", "nan"} -> "number"
      [] v.t = "string" -> "string"
      [] v.t = "class" -> "function"
      [] OTHER -> "object"

isArray(v) == v.t = "array"

\* !v is false
truthy(v) ==
    CASE v.t \in {"undefined", "null", "nan"} -> FALSE
      [] v.t \in {"boolean", "number"} -> v.x # <<0>>
      [] v.t = "string" -> v.x # <<>>
      [] OTHER -> TRUE

\* a === b
strictEquals(a, b) ==
    IF a.r # 0 \/ b.r # 0 THEN a = b
    ELSE a.t # "nan" /\ a = b

\* String(v), as far as the characters "a", "b" and "," go
RECURSIVE joinComma(_)
joinComma(x) ==
    IF Len(x) <= 1 THEN x ELSE <<Head(x), 3>> \o joinComma(Tail(x))

toString(v) ==
    CASE v.t = "string" -> v.x
      [] v.t = "array" -> joinComma(v.x)
      [] v.t = "undefined" -> <<9, 9, 9, 9, 9, 9, 9, 9, 9>>
      [] v.t = "null" -> <<9, 9, 9, 9>>
      [] v.t = "nan" -> <<9, 1, 9>>
      [] v.t = "boolean" -> IF v.x = <<1>> THEN <<9, 9, 9, 9>> ELSE <<9, 1, 9, 9, 9>>
      [] v.t = "number" -> <<9>>
      [] v.t = "regex" -> <<9>> \o v.x \o <<9>>
      [] OTHER -> <<9, 9, 2, 9, 9, 9, 9, 9, 9, 2, 9, 9, 9, 9, 9>>

\* s.includes(sub), also pattern.test(s) for a pattern of plain characters
stringIncludes(s, sub) ==
    \E i \in 0..(Len(s) - Len(sub)) : SubSeq(s, i + 1, i + Len(sub)) = sub

\* array.includes(e): the elements are one-character strings
arrayIncludes(v, e) ==
    e.t = "string" /\ Len(e.x) = 1 /\ \E i \in 1..Len(v.x) : v.x[i] = e.x[1]

\* key in v, for an object or a regular expression v
hasProperty(v, key) ==
    v.t = "object" /\ key.t = "string" /\ Len(key.x) = 1
        /\ \E i \in 1..Len(v.x) : v.x[i] = key.x[1]

\* JSON.stringify(v): undefined stays undefined, NaN becomes null, a regular
\* expression becomes {}, object identity is lost
stringify(v) ==
    CASE v.t = "nan" -> Val("null", <<>>, 0)
      [] v.t = "regex" -> Val("object", <<>>, 0)
      [] OTHER -> Val(v.t, v.x, 0)

\* Number(v): nan is TRUE when the result is NaN
toNumber(v) ==
    CASE v.t \in {"boolean", "number"} -> [nan |-> FALSE, n |-> v.x[1]]
      [] v.t = "null" -> [nan |-> FALSE, n |-> 0]
      [] v.t \in {"string", "array"} /\ v.x = <<>> -> [nan |-> FALSE, n |-> 0]
      [] OTHER -> [nan |-> TRUE, n |-> 0]

\* v <= e and v >= e for a number e
lessOrEqual(v, e) ==
    ~toNumber(v).nan /\ ~toNumber(e).nan /\ toNumber(v).n <= toNumber(e).n

greaterOrEqual(v, e) ==
    ~toNumber(v).nan /\ ~toNumber(e).nan /\ toNumber(v).n >= toNumber(e).n

\* v instanceof cls, for the classes Array (1), Object (2) and RegExp (3)
instanceOf(v, cls) ==
    CASE cls.x = <<1>> -> v.t = "array"
      [] cls.x = <<2>> -> v.t \in {"array", "object", "regex"}
      [] OTHER -> v.t = "regex"

\* the i-th element of an array, as a value
Element(arr, i) == Str(<<arr.x[i]>>)

\* toHave: the items the call looks up, in order
itemsOf(that) ==
    IF isArray(that) THEN [i \in 1..Len(that.x) |-> Element(that, i)] ELSE <<that>>

hasItem(v, item) == IF isArray(v) THEN arrayIncludes(v, item) ELSE hasProperty(v, item)

\* the matcher's own argument checks, which throw a TestError whatever negate is
usageError(m, v, a) ==
    CASE m = "toContain" -> ~isArray(v) /\ typeOf(v) # "string"
      [] m = "toBeIn" -> ~isArray(a)
      [] m = "toHave" -> ~truthy(v)
      [] m = "toMatch" -> a.t # "regex"
      [] OTHER -> FALSE

\* the TypeError the JavaScript operators of the matcher throw
typeError(m, v, a) ==
    CASE m = "toContain" -> typeOf(v) = "string" /\ a.t = "regex"
      [] m = "toHave" -> typeOf(v) # "object" /\ itemsOf(a) # <<>>
      [] m = "toBeEmpty" -> v.t = "null"
      [] OTHER -> FALSE

\* the condition each matcher tests next to !this.negate
failCondition(m, v, a) ==
    CASE m = "toBe" -> ~strictEquals(v, a)
      [] m = "toEqual" -> stringify(v) # stringify(a)
      [] m = "toContain" ->
            IF isArray(v) THEN ~arrayIncludes(v, a) ELSE ~stringIncludes(v.x, toString(a))
      [] m = "toBeIn" -> ~arrayIncludes(a, v)
      [] m = "toBeTruthy" -> ~truthy(v)
      [] m = "toBeFalsy" -> truthy(v)
      [] m = "toBeDefined" -> v.t = "undefined"
      [] m = "toBeNull" -> v.t # "null"
      [] m = "toBeGreaterThan" -> lessOrEqual(v, a)
      [] m = "toBeLessThan" -> greaterOrEqual(v, a)
      [] m = "toBeInstanceOf" -> ~instanceOf(v, a)
      [] m = "toBeArray" -> ~isArray(v)
      [] m = "toBeObject" -> typeOf(v) # "object" \/ v.t = "null" \/ isArray(v)
      [] m = "toBeString" -> typeOf(v) # "string"
      [] m = "toBeNumber" -> typeOf(v) # "number" \/ v.t = "nan"
      [] m = "toBeBoolean" -> typeOf(v) # "boolean"
      [] m = "toHave" -> \E i \in 1..Len(itemsOf(a)) : ~hasItem(v, itemsOf(a)[i])
      [] m = "toMatch" -> ~stringIncludes(toString(v), a.x)
      [] m = "toBeEmpty" ->
            \/ isArray(v) /\ Len(v.x) > 0
            \/ typeOf(v) = "object" /\ v.t # "regex" /\ Len(v.x) > 0
            \/ v # Str(<<>>)
      [] OTHER -> FALSE

\* variant: the loop runs to its end and reports the last item the value lacks
firstMissing_last(v, a) ==
    LET items == itemsOf(a)
        missing == {i \in 1..Len(items) : ~hasItem(v, items[i])}
    IN IF missing = {} THEN 0
       ELSE CHOOSE i \in missing : \A j \in missing : i >= j

\* the position of the first item of toHave's argument the value lacks (0 when it has all)
firstMissing(v, a) ==
    LET items == itemsOf(a)
        missing == {i \in 1..Len(items) : ~hasItem(v, items[i])}
    IN IF missing = {} THEN 0
       ELSE CHOOSE i \in missing : \A j \in missing : i <= j

\* does the call throw an assertion failure
assertionFails(e, m, a) == failCondition(m, e.value, a) /\ ~e.negate

\* new Expect(name, value, negate, verbose): verbose defaults to config.verbose
Expect(name, value, negate, verbose, cfg) ==
    [name |-> name, value |-> value, negate |-> negate,
     verbose |-> IF verbose = "undefined" THEN cfg.verbose ELSE verbose]

\* variant: the getter toggles the flag instead of setting it
not_toggles(e, cfg) == Expect(e.name, e.value, ~e.negate, "undefined", cfg)

\* get not()
not(e, cfg) == Expect(e.name, e.value, TRUE, "undefined", cfg)

\* the message of a thrown error, kept as what it contains: this.name, the
\* expected condition, the rendering of this.value
NoMessage == [name |-> FALSE, expected |-> FALSE, actual |-> FALSE]

\* the message of the TestError a failing assertion throws
failureMessage(m) ==
    [name |-> m \in {"toHave", "toMatch", "toBeEmpty"}, expected |-> TRUE, actual |-> TRUE]

\* the message of the TestError an argument check throws
usageMessage(m) ==
    [name |-> m = "toHave", expected |-> TRUE, actual |-> m = "toContain"]

NoCall == [m |-> "", obj |-> 0, nargs |-> 0, arg |-> Undefined, threw |-> FALSE, error |-> "",
           message |-> NoMessage, cites |-> Undefined, returned |-> 0, logged |-> FALSE]

\* variant: #log appends whatever the verbosity
matcher_alwaysLogs(e, id, m, a) ==
    LET usage == usageError(m, e.value, a)
        type == ~usage /\ typeError(m, e.value, a)
        fails == ~usage /\ ~type /\ assertionFails(e, m, a)
        threw == usage \/ type \/ fails
    IN [m |-> m, obj |-> id, nargs |-> 1, arg |-> a, threw |-> threw,
        error |-> IF usage THEN "usage" ELSE IF type THEN "TypeError"
                  ELSE IF fails THEN "assertion" ELSE "",
        message |-> IF usage THEN usageMessage(m)
                    ELSE IF fails THEN failureMessage(m) ELSE NoMessage,
        cites |-> IF fails /\ m = "toHave" THEN itemsOf(a)[firstMissing(e.value, a)] ELSE Undefined,
        returned |-> IF threw \/ (m = "toHave" /\ ~isArray(a)) THEN 0 ELSE id,
        logged |-> ~threw]

\* what a call of matcher m on the object with identity id does
matcher(e, id, m, a) ==
    LET usage == usageError(m, e.value, a)
        type == ~usage /\ typeError(m, e.value, a)
        fails == ~usage /\ ~type /\ assertionFails(e, m, a)
        threw == usage \/ type \/ fails
    IN [m |-> m, obj |-> id, nargs |-> 1, arg |-> a, threw |-> threw,
        error |-> IF usage THEN "usage" ELSE IF type THEN "TypeError"
                  ELSE IF fails THEN "assertion" ELSE "",
        message |-> IF usage THEN usageMessage(m)
                    ELSE IF fails THEN failureMessage(m) ELSE NoMessage,
        cites |-> IF fails /\ m = "toHave" THEN itemsOf(a)[firstMissing(e.value, a)] ELSE Undefined,
        returned |-> IF threw \/ (m = "toHave" /\ ~isArray(a)) THEN 0 ELSE id,
        logged |-> ~threw /\ e.verbose = VERBOSE_TYPE_DETAILED]

\* variant: #log counts the assertion as a test
matcherLog_counted(P, e) ==
    addLog([P EXCEPT !.count = @ + 1], Msg(IF e.negate THEN "expectNot" ELSE "expect", "", 0,
                  2 + (IF e.negate THEN 2 ELSE 1) * ColorLen + 1 + 1 + 1 + 4),
           "log", FALSE)

\* #log(expected)
matcherLog(P, e) ==
    addLog(P, Msg(IF e.negate THEN "expectNot" ELSE "expect", "", 0,
                  2 + (IF e.negate THEN 2 ELSE 1) * ColorLen + 1 + 1 + 1 + 4),
           "log", FALSE)

\* ------------------------------------------------------- lib/web-app.js
\* setup(options): options.url and options.appPath, "" when absent
Urls == {"", "u1"}
AppPaths == {"", "p"}

\* line 317
cacheKey(url, appPath) ==
    IF url # "" THEN url ELSE IF appPath # "" THEN appPath ELSE "auto-detect"

\* what the environment lets a launch come to: the result is returned; an
\* import, the file check or puppeteer.launch rejects; or the browser is
\* launched and browser.pages(), newPage() or page.goto rejects
SetupOutcomes == {"ok", "notLaunched", "launchedThenFailed"}

\* browsers: every browser launched, TRUE while it is open; a browser is
\* known by its position, and so is its page and the result object made
\* for it.  browser and browserPage are the globalThis handles, 0 when unset.
\* calls is the history of the calls of setup and cleanup made.
NoWeb == [browsers |-> <<>>, setupCache |-> <<>>, browser |-> 0, browserPage |-> 0,
          calls |-> <<>>]

\* variant: the key is cached as soon as the browser is launched
setup_cachesOnLaunch(W, url, appPath, launch) ==
    LET key == cacheKey(url, appPath)
        b == Len(W.browsers) + 1
        launched == [W EXCEPT !.browsers = Append(@, TRUE), !.setupCache = @ @@ (key :> b)]
    IN IF key \in DOMAIN W.setupCache THEN W
       ELSE IF launch = "notLaunched" THEN W
       ELSE IF launch = "launchedThenFailed" THEN launched
       ELSE [launched EXCEPT !.browserPage = b, !.browser = b]

\* the store after setup(options): lines 313-463
setup(W, url, appPath, launch) ==
    LET key == cacheKey(url, appPath)
        b == Len(W.browsers) + 1
        launched == [W EXCEPT !.browsers = Append(@, TRUE)]
    IN IF key \in DOMAIN W.setupCache THEN W
       ELSE IF launch = "notLaunched" THEN W
       ELSE IF launch = "launchedThenFailed" THEN launched
       ELSE [launched EXCEPT !.browserPage = b, !.browser = b,
                             !.setupCache = @ @@ (key :> b)]

\* what setup(options) returns: the result object, 0 when it throws
setupReturns(W, url, appPath, launch) ==
    LET key == cacheKey(url, appPath)
    IN IF key \in DOMAIN W.setupCache THEN W.setupCache[key]
       ELSE IF launch = "ok" THEN Len(W.browsers) + 1
       ELSE 0

\* cleanup(): lines 14-21
cleanup(W) ==
    LET closed == IF W.browser # 0
                  THEN [W EXCEPT !.browsers[W.browser] = FALSE,
                                 !.browser = 0, !.browserPage = 0]
                  ELSE W
    IN [closed EXCEPT !.setupCache = <<>>]

\* keyPress(keys, providedPage): lines 64-159.  The string keys is the
\* sequence of its pieces: a separator character or a word without one.
Separators == {"+", "-"}
ModifierWords == {"Ctrl", "Shift", "Alt", "Cmd"}
MainWords == {"a", "Enter"}
KeyTokens == Separators \cup ModifierWords \cup MainWords

\* String.prototype.toLowerCase on a word
toLowerCase(w) ==
    CASE w = "Ctrl" -> "ctrl"
      [] w = "Shift" -> "shift"
      [] w = "Alt" -> "alt"
      [] w = "Cmd" -> "cmd"
      [] w = "Enter" -> "enter"
      [] OTHER -> w

\* String.prototype.toUpperCase on a letter, line 129
toUpperCase(w) == IF w = "a" THEN "A" ELSE w

\* line 128: /^[a-zA-Z]$/
isLetter(part) == Len(part) = 1 /\ part[1] \in {"a"}

\* lines 98-106
modifierMap ==
    [w \in {"ctrl", "control", "shift", "alt", "meta", "cmd", "command"} |->
        CASE w \in {"ctrl", "control"} -> "control"
          [] w = "shift" -> "shift"
          [] w = "alt" -> "alt"
          [] OTHER -> "meta"]

\* line 79: keys.replace(/[-+]/g, '+')
normalizeKeys(keys) == [i \in DOMAIN keys |-> IF keys[i] \in Separators THEN "+" ELSE keys[i]]

\* line 82: split('+'): the pieces between the separators, one more than
\* there are separators, empty where two separators meet or at an end
split(s) ==
    LET at == {i \in DOMAIN s : s[i] = "+"}
        n == Cardinality(at)
        pos(k) == IF k = 0 THEN 0
                  ELSE IF k = n + 1 THEN Len(s) + 1
                  ELSE CHOOSE i \in at : Cardinality({j \in at : j < i}) = k - 1
    IN [k \in 1..(n + 1) |-> SubSeq(s, pos(k - 1) + 1, pos(k) - 1)]

\* the string a part is
RECURSIVE partString(_)
partString(part) == IF part = <<>> THEN "" ELSE Head(part) \o partString(Tail(part))

\* line 111: modifierMap[lowerPart] is found
isModifier(part) == Len(part) = 1 /\ toLowerCase(part[1]) \in DOMAIN modifierMap

\* lines 108-113: the modifiers named
modifiersOf(parts) == {modifierMap[toLowerCase(parts[i][1])] : i \in {j \in DOMAIN parts : isModifier(parts[j])}}

\* lines 113-120: the positions of the parts taken for a main key
mainParts(parts) == {i \in DOMAIN parts : ~isModifier(parts[i])}

KeyDown(k) == [type |-> "down", key |-> k]
KeyUp(k) == [type |-> "up", key |-> k]

\* lines 133-149: the modifiers pressed, in the order of the four tests
modifierNames(mods) ==
    (IF "control" \in mods THEN <<"Control">> ELSE <<>>)
    \o (IF "shift" \in mods THEN <<"Shift">> ELSE <<>>)
    \o (IF "alt" \in mods THEN <<"Alt">> ELSE <<>>)
    \o (IF "meta" \in mods THEN <<"Meta">> ELSE <<>>)

\* lines 155-158: released from the last pressed to the first
releaseOrder(names) == [i \in DOMAIN names |-> names[Len(names) + 1 - i]]

NoKeyPress == [called |-> FALSE, keys |-> <<>>, page |-> FALSE, threw |-> FALSE,
               error |-> "", events |-> <<>>]

\* the call keyPress(keys, providedPage) with a page at hand or not
keyPress(keys, page) ==
    LET parts == split(normalizeKeys(keys))
        mods == modifiersOf(parts)
        mains == mainParts(parts)
        part == parts[CHOOSE i \in mains : TRUE]
        mainKey == IF isLetter(part) /\ mods # {}
                   THEN "Key" \o toUpperCase(part[1])
                   ELSE partString(part)
        names == modifierNames(mods)
        rejected(e) == [called |-> TRUE, keys |-> keys, page |-> page, threw |-> TRUE,
                        error |-> e, events |-> <<>>]
    IN IF ~page THEN rejected("Page not initialized")
       ELSE IF Len(parts) = 0 THEN rejected("empty string")
       ELSE IF Cardinality(mains) > 1 THEN rejected("multiple non-modifier keys found")
       ELSE IF mains = {} THEN rejected("no main key specified")
       ELSE [called |-> TRUE, keys |-> keys, page |-> page, threw |-> FALSE, error |-> "",
             events |-> [i \in DOMAIN names |-> KeyDown(names[i])]
                        \o <<KeyDown(mainKey), KeyUp(mainKey)>>
                        \o [i \in DOMAIN names |-> KeyUp(releaseOrder(names)[i])]]

\* a direct call of the log store, lib/progress.js, and the indices addLog
\* has returned so far
NoStoreCall == [name |-> "", index |-> 0, returned |-> 0, threw |-> FALSE, opened |-> {}]

\* ------------------------------------------------- summary() as a function
\* one closure from its invocation to the settling of its promise
runClosure(P, verbose, c) ==
    LET idx == closureIndex(P, verbose)
        begun == closureBegin(P, verbose, c.title)
        body == IF c.fn.aborts THEN abort(begun) ELSE begun
    IN [P |-> closureEnd(body, verbose, c, idx, c.fn.throws),
        rejected |-> closureRejects(body, idx, c.fn.throws)]

\* the for-of loop over one file's list: lines 34-47
RECURSIVE runList(_, _, _, _, _)
runList(P, verbose, file, idx, list) ==
    IF list = <<>> \/ abortedInList(P) THEN [P |-> P, rejected |-> FALSE]
    ELSE LET r == runClosure(P, verbose, Head(list))
         IN IF r.rejected THEN r
            ELSE runList(fileAfterTest(r.P, verbose, file, idx), verbose, file, idx, Tail(list))

\* the for-in loop over progress.tests: lines 14-53
RECURSIVE runFiles(_, _, _, _)
runFiles(P, verbose, first, T) ==
    IF T = <<>> THEN [P |-> P, rejected |-> FALSE]
    ELSE LET file == Head(T).file
             r == runList(fileBegin(P, verbose, first, file), verbose, file,
                          fileIndex(P, verbose, first), Head(T).list)
         IN IF r.rejected \/ abortedAfterList(r.P) THEN r
            ELSE runFiles(r.P, verbose, FALSE, Tail(T))

\* what a run of summary() from store P ends with
outcome(P, verbose) ==
    LET r == runFiles(P, verbose, TRUE, P.tests)
    IN [count |-> r.P.count, failed |-> r.P.failed, fails |-> r.P.fails,
        skipped |-> r.P.skipped,
        exit |-> IF r.rejected THEN 0 ELSE exitStatus(r.P)]

\* -------------------------------------------------------------------- Init
NoClosure == [c |-> [title |-> 0, file |-> "", fn |-> [throws |-> FALSE, aborts |-> FALSE]],
              index |-> -1]

EmptyStore == [logs |-> <<>>, tests |-> <<>>, fails |-> <<>>,
               count |-> 0, failed |-> 0, skipped |-> 0, aborted |-> FALSE]

Init ==
    /\ config \in [file : {NoFile}, verbose : Verbosity]
    /\ progress = EmptyStore
    /\ pc = "load"
    /\ fileIdx = 0
    /\ testIdx = 0
    /\ isFirst = TRUE
    /\ index = -1
    /\ closure = NoClosure
    /\ invoked = <<>>
    /\ ended = <<>>
    /\ out = <<>>
    /\ cleanupCalls = 0
    /\ exitCode = -1
    /\ cliExitCode = -1
    /\ atStart = EmptyStore
    /\ objects = <<>>
    /\ call = NoCall
    /\ ncalls = 0
    /\ web = NoWeb
    /\ kp = NoKeyPress
    /\ store = NoStoreCall
    /\ op = "init"

\* ------------------------------------------------- loading the test files
runnerVars == <<fileIdx, testIdx, isFirst, index, closure>>
historyVars == <<invoked, ended, atStart>>
processVars == <<out, cleanupCalls, exitCode, cliExitCode>>
expectVars == <<objects, call, ncalls>>
libVars == <<web, kp, store>>

\* config.file = '...' (bootstrap script, or a test file that sets it)
SetConfigFile(f) ==
    /\ pc = "load"
    /\ f # config.file
    /\ config' = [config EXCEPT !.file = f]
    /\ op' = "config"
    /\ UNCHANGED <<libVars, progress, pc, runnerVars, historyVars, processVars, expectVars>>

\* test(title, fn) called by a test file
Test(fn) ==
    /\ pc = "load"
    /\ Registered + progress.skipped < MaxRegistrations
    /\ progress' = [progress EXCEPT !.tests = test(@, config, Registered + 1, fn)]
    /\ op' = "test"
    /\ UNCHANGED <<libVars, config, pc, runnerVars, historyVars, processVars, expectVars>>

\* test.skip(message) called by a test file
TestSkip ==
    /\ pc = "load"
    /\ Registered + progress.skipped < MaxRegistrations
    /\ progress' = testSkip(progress)
    /\ op' = "skip"
    /\ UNCHANGED <<libVars, config, pc, runnerVars, historyVars, processVars, expectVars>>

\* abort(message) called by a test file while it is loaded
AbortOnLoad ==
    /\ pc = "load"
    /\ ~progress.aborted
    /\ progress' = abort(progress)
    /\ op' = "abort"
    /\ UNCHANGED <<libVars, config, pc, runnerVars, historyVars, processVars, expectVars>>

\* await summary(loader)
SummaryCall ==
    /\ pc = "load"
    /\ pc' = "files"
    /\ fileIdx' = 1
    /\ isFirst' = TRUE
    /\ atStart' = progress
    /\ op' = "summary"
    /\ UNCHANGED <<libVars, config, progress, testIdx, index, closure, invoked, ended, processVars, expectVars>>

\* ------------------------------------------------------- summary(): the run
CurrentFile == progress.tests[fileIdx].file
CurrentList == progress.tests[fileIdx].list

\* the pc of summary() once it has invoked a closure: it awaits the promise
awaitTest == "body"

\* for-in: no key left, line 55
FilesDone ==
    /\ pc = "files"
    /\ fileIdx > Len(progress.tests)
    /\ pc' = "report"
    /\ op' = "filesDone"
    /\ UNCHANGED <<libVars, config, progress, runnerVars, historyVars, processVars, expectVars>>

\* for-in: the next key, lines 15-33
FileBegin ==
    /\ pc = "files"
    /\ fileIdx <= Len(progress.tests)
    /\ progress' = fileBegin(progress, config.verbose, isFirst, CurrentFile)
    /\ index' = fileIndex(progress, config.verbose, isFirst)
    /\ isFirst' = FALSE
    /\ testIdx' = 1
    /\ pc' = "tests"
    /\ op' = "fileBegin"
    /\ UNCHANGED <<libVars, config, fileIdx, closure, historyVars, processVars, expectVars>>

\* for-of: the list is exhausted or abort was signalled; then line 50
FileEnd ==
    /\ pc = "tests"
    /\ testIdx > Len(CurrentList) \/ abortedInList(progress)
    /\ IF abortedAfterList(progress)
       THEN pc' = "report" /\ UNCHANGED fileIdx
       ELSE pc' = "files" /\ fileIdx' = fileIdx + 1
    /\ op' = "fileEnd"
    /\ UNCHANGED <<libVars, config, progress, testIdx, isFirst, index, closure, historyVars, processVars, expectVars>>

\* for-of: await test(), up to the closure's call of fn
InvokeTest ==
    /\ pc = "tests"
    /\ testIdx <= Len(CurrentList)
    /\ ~abortedInList(progress)
    /\ LET c == CurrentList[testIdx]
       IN /\ closure' = [c |-> c, index |-> closureIndex(progress, config.verbose)]
          /\ progress' = closureBegin(progress, config.verbose, c.title)
          /\ invoked' = Append(invoked, c.title)
    /\ pc' = awaitTest
    /\ op' = "invoke"
    /\ UNCHANGED <<libVars, config, fileIdx, testIdx, isFirst, index, ended, atStart, processVars, expectVars>>

\* the running test body calls abort()
BodyAbort ==
    /\ pc = "body"
    /\ closure.c.fn.aborts
    /\ ~progress.aborted
    /\ progress' = abort(progress)
    /\ op' = "abort"
    /\ UNCHANGED <<libVars, config, pc, runnerVars, historyVars, processVars, expectVars>>

\* variant: the failure is counted once more when the body has ended
BodyEnd_countsAgain ==
    /\ pc = "body"
    /\ closure.c.fn.aborts => progress.aborted
    /\ progress' = LET P == closureEnd(progress, config.verbose, closure.c, closure.index, closure.c.fn.throws)
                   IN IF closure.c.fn.throws THEN closureCatch(P, closure.c.file) ELSE P
    /\ ended' = Append(ended, [title |-> closure.c.title, threw |-> closure.c.fn.throws])
    /\ pc' = IF closureRejects(progress, closure.index, closure.c.fn.throws)
             THEN "rejected" ELSE "resumed"
    /\ op' = "bodyEnd"
    /\ UNCHANGED <<libVars, config, runnerVars, invoked, atStart, processVars, expectVars>>

\* fn returns or throws and the closure runs to its end
BodyEnd ==
    /\ pc = "body"
    /\ closure.c.fn.aborts => progress.aborted
    /\ progress' = closureEnd(progress, config.verbose, closure.c, closure.index, closure.c.fn.throws)
    /\ ended' = Append(ended, [title |-> closure.c.title, threw |-> closure.c.fn.throws])
    /\ pc' = IF closureRejects(progress, closure.index, closure.c.fn.throws)
             THEN "rejected" ELSE "resumed"
    /\ op' = "bodyEnd"
    /\ UNCHANGED <<libVars, config, runnerVars, invoked, atStart, processVars, expectVars>>

\* summary() resumes after the await: lines 40-46
Resume ==
    /\ pc = "resumed"
    /\ progress' = fileAfterTest(progress, config.verbose, CurrentFile, index)
    /\ testIdx' = testIdx + 1
    /\ pc' = "tests"
    /\ op' = "resume"
    /\ UNCHANGED <<libVars, config, fileIdx, isFirst, index, closure, historyVars, processVars, expectVars>>

\* ---------------------------------------------------- summary(): the report
\* lines 55-92
Report ==
    /\ pc = "report"
    /\ out' = out \o report(progress, config.verbose)
    /\ pc' = "cleanup"
    /\ op' = "report"
    /\ UNCHANGED <<libVars, config, progress, runnerVars, historyVars, cleanupCalls, exitCode, cliExitCode, expectVars>>

\* await cleanup(), line 95
Cleanup ==
    /\ pc = "cleanup"
    /\ cleanupCalls' = cleanupCalls + 1
    /\ web' = cleanup(web)
    /\ pc' = "exit"
    /\ op' = "cleanup"
    /\ UNCHANGED <<kp, store, config, progress, runnerVars, historyVars, out, exitCode, cliExitCode, expectVars>>

\* process.exit, lines 97-103
Exit ==
    /\ pc = "exit"
    /\ exitCode' = exitStatus(progress)
    /\ pc' = "exited"
    /\ op' = "exit"
    /\ UNCHANGED <<libVars, config, progress, runnerVars, historyVars, out, cleanupCalls, cliExitCode, expectVars>>

\* ------------------------------------------------------------ index.js
\* the bootstrap script's catch around summary(), then process.exit(0)
SummaryRejected ==
    /\ pc = "rejected"
    /\ out' = Append(out, Line("stderr", "summaryError", NoMsg, FALSE, 0, 0))
    /\ exitCode' = 0
    /\ pc' = "exited"
    /\ op' = "exit"
    /\ UNCHANGED <<libVars, config, progress, runnerVars, historyVars, cleanupCalls, cliExitCode, expectVars>>

\* the CLI's handler of the child's exit event
SpawnExit ==
    /\ pc = "exited"
    /\ cliExitCode' = exitCode
    /\ pc' = "cliExited"
    /\ op' = "cliExit"
    /\ UNCHANGED <<libVars, config, progress, runnerVars, historyVars, out, cleanupCalls, exitCode, expectVars>>

Next ==
    \/ \E f \in ConfigFiles : SetConfigFile(f)
    \/ \E fn \in Bodies : Test(fn)
    \/ TestSkip
    \/ AbortOnLoad
    \/ SummaryCall
    \/ FilesDone
    \/ FileBegin
    \/ FileEnd
    \/ InvokeTest
    \/ BodyAbort
    \/ BodyEnd
    \/ Resume
    \/ Report
    \/ Cleanup
    \/ Exit
    \/ SummaryRejected
    \/ SpawnExit

Spec == Init /\ [][Next]_vars

\* ------------------------------------------------ calls of the assertions
\* the verbose argument of expect(): absent, or a verbosity level
VerboseArguments == {"undefined", VERBOSE_TYPE_NONE, VERBOSE_TYPE_DETAILED}

\* expect(...args)
ExpectCall(nargs, v, verbose) ==
    /\ pc = "load"
    /\ objects = <<>>
    /\ call = NoCall
    /\ IF nargs < 2
       THEN /\ call' = [NoCall EXCEPT !.m = "expect", !.nargs = nargs, !.threw = TRUE,
                                      !.error = "usage", !.message = usageMessage("expect")]
            /\ UNCHANGED objects
       ELSE /\ objects' = <<Expect("x", v, FALSE, IF nargs < 3 THEN "undefined" ELSE verbose, config)>>
            /\ call' = [NoCall EXCEPT !.m = "expect", !.nargs = nargs, !.returned = 1]
    /\ op' = "expect"
    /\ UNCHANGED <<libVars, config, progress, pc, runnerVars, historyVars, processVars, ncalls>>

\* e.not
NotAccess(id) ==
    /\ pc = "load"
    /\ id \in 1..Len(objects)
    /\ Len(objects) + ncalls < MaxExpectOps
    /\ objects' = Append(objects, not(objects[id], config))
    /\ call' = [NoCall EXCEPT !.m = "not", !.obj = id, !.returned = Len(objects) + 1]
    /\ op' = "not"
    /\ UNCHANGED <<libVars, config, progress, pc, runnerVars, historyVars, processVars, ncalls>>

\* e.m(a) for a matcher m
MatcherCall(id, m, a) ==
    /\ pc = "load"
    /\ id \in 1..Len(objects)
    /\ Len(objects) + ncalls < MaxExpectOps
    /\ call' = matcher(objects[id], id, m, a)
    /\ progress' = IF call'.logged THEN matcherLog(progress, objects[id]) ELSE progress
    /\ ncalls' = ncalls + 1
    /\ op' = "matcher"
    /\ UNCHANGED <<libVars, config, pc, runnerVars, historyVars, processVars, objects>>

ExpectNext ==
    \/ \E nargs \in 1..3, v \in Values, verbose \in VerboseArguments : ExpectCall(nargs, v, verbose)
    \/ \E id \in 1..MaxExpectOps : NotAccess(id)
    \/ \E id \in 1..MaxExpectOps, m \in Matchers : \E a \in ArgumentsOf(m) : MatcherCall(id, m, a)

ExpectSpec == Init /\ [][ExpectNext]_vars

\* ------------------------------------------- lib/web-app.js: the calls
\* await setup({ url, appPath })
SetupCall(url, appPath, launch) ==
    /\ pc = "load"
    /\ Len(web.calls) < MaxWebCalls
    /\ web' = [setup(web, url, appPath, launch) EXCEPT !.calls = Append(@,
                  [name |-> "setup", url |-> url, appPath |-> appPath, outcome |-> launch,
                   returned |-> setupReturns(web, url, appPath, launch),
                   threw |-> setupReturns(web, url, appPath, launch) = 0,
                   launched |-> IF Len(setup(web, url, appPath, launch).browsers) > Len(web.browsers)
                                THEN Len(web.browsers) + 1 ELSE 0])]
    /\ op' = "setup"
    /\ UNCHANGED <<kp, store, config, progress, pc, runnerVars, historyVars, processVars, expectVars>>

\* await cleanup()
CleanupCall ==
    /\ pc = "load"
    /\ Len(web.calls) < MaxWebCalls
    /\ web' = [cleanup(web) EXCEPT !.calls = Append(@,
                  [name |-> "cleanup", url |-> "", appPath |-> "", outcome |-> "",
                   returned |-> 0, threw |-> FALSE, launched |-> 0])]
    /\ op' = "cleanup"
    /\ UNCHANGED <<kp, store, config, progress, pc, runnerVars, historyVars, processVars, expectVars>>

WebNext ==
    \/ \E url \in Urls, appPath \in AppPaths, launch \in SetupOutcomes : SetupCall(url, appPath, launch)
    \/ CleanupCall

WebSpec == Init /\ [][WebNext]_vars

KeyStrings == UNION {[1..n -> KeyTokens] : n \in 0..MaxKeyTokens}

\* await keyPress(keys, providedPage): one call, as keyPress keeps nothing
\* from one call to the next
KeyPressCall ==
    /\ pc = "load"
    /\ ~kp.called
    /\ \E keys \in KeyStrings, providedPage \in BOOLEAN :
           kp' = keyPress(keys, providedPage \/ web.browserPage # 0)
    /\ op' = "keyPress"
    /\ UNCHANGED <<web, store, config, progress, pc, runnerVars, historyVars, processVars, expectVars>>

KeyPressNext == KeyPressCall

KeyPressSpec == Init /\ [][KeyPressNext]_vars

\* ------------------------------------------- lib/progress.js: the calls
StoreMessages == {Msg("text", "", 0, 0), Msg("text", "", 0, 3)}
StoreTypes == {"log", "error"}

\* progress.addLog(message, type, title)
StoreAddLog(message, type, title) ==
    /\ pc = "load"
    /\ Len(progress.logs) < MaxLogEntries
    /\ progress' = addLog(progress, message, type, title)
    /\ store' = [name |-> "addLog", index |-> 0, returned |-> addLogIndex(progress), threw |-> FALSE,
                 opened |-> store.opened \cup {addLogIndex(progress)}]
    /\ op' = "addLog"
    /\ UNCHANGED <<web, kp, config, pc, runnerVars, historyVars, processVars, expectVars>>

\* progress.setLog(index, message, type): the callers (lib/test.js,
\* lib/summary.js) pass an index addLog returned to them, or one that is
\* no index of the log
StoreSetLog(idx, message, type) ==
    /\ pc = "load"
    /\ Len(progress.logs) <= MaxLogEntries
    /\ idx \in store.opened \/ ~setLogInBounds(progress, idx)
    /\ progress' = setLog(progress, idx, message, type)
    /\ store' = [name |-> "setLog", index |-> idx, returned |-> 0, threw |-> setLogThrows(progress, idx),
                 opened |-> store.opened]
    /\ op' = "setLog"
    /\ UNCHANGED <<web, kp, config, pc, runnerVars, historyVars, processVars, expectVars>>

StoreNext ==
    \/ \E message \in StoreMessages, type \in StoreTypes, title \in BOOLEAN : StoreAddLog(message, type, title)
    \/ \E idx \in -1..(MaxLogEntries + 2), message \in StoreMessages, type \in StoreTypes : StoreSetLog(idx, message, type)

StoreSpec == Init /\ [][StoreNext]_vars

\* ------------------------------------------------------------ sanity
TypeOK ==
    /\ config.verbose \in Verbosity
    /\ config.file \in ConfigFiles
    /\ pc \in {"load", "files", "tests", "body", "resumed", "rejected", "report",
               "cleanup", "exit", "exited", "cliExited"}
    /\ progress.count \in Nat /\ progress.failed \in Nat /\ progress.skipped \in Nat
    /\ \A i \in 1..Len(progress.tests) : progress.tests[i].file \in FileKeys
    /\ DOMAIN progress.fails \subseteq FileKeys

\* the step machine and the function agree on every finished run
RunMatchesOutcome ==
    pc \in {"exited", "cliExited"} =>
        outcome(atStart, config.verbose) =
            [count |-> progress.count, failed |-> progress.failed, fails |-> progress.fails,
             skipped |-> progress.skipped, exit |-> exitCode]

\* ================================================================== claims
Finished == pc \in {"exited", "cliExited"}

Throwing == Cardinality({c \in AllClosures : c.fn.throws})

Titles(seq) == {seq[i] : i \in 1..Len(seq)}

ThrewSoFar == Cardinality({i \in 1..Len(ended) : ended[i].threw})

ClosureOf(title) == CHOOSE c \in AllClosures : c.title = title

FirstTitle(file) ==
    CHOOSE t \in {c.title : c \in {d \in AllClosures : d.file = file}} :
        \A c \in AllClosures : c.file = file => t <= c.title

AggregateKinds == {"failedLine", "abortedLine", "passedLine"}

Reported == \E i \in 1..Len(out) : out[i].kind \in AggregateKinds

\* C1: after a complete, non-aborted run with N registered tests of which F
\* throw, count = N, failed = F and failed is the sum of the per-file
\* failure counts, whatever the verbosity.
C1_CounterInvariant ==
    (Finished /\ ~progress.aborted) =>
        /\ progress.count = Registered
        /\ progress.failed = Throwing
        /\ progress.failed = SumFails(progress.fails, DOMAIN progress.fails)

\* C2: the test process terminates with status 0 when every executed test
\* passed, 1 when a test failed and 2 when the run was aborted, and the CLI
\* process exits with the same status.
C2_ExitStatus ==
    /\ Finished =>
          exitCode = IF progress.aborted THEN 2 ELSE IF ThrewSoFar > 0 THEN 1 ELSE 0
    /\ pc = "cliExited" => cliExitCode = exitCode

\* C3: an exception thrown by a test body never leaves the test closure, it
\* is recorded as a failure, and unless abort is signalled every registered
\* test is still executed.
C3_FailureContained ==
    /\ pc # "rejected"
    /\ progress.failed = ThrewSoFar
    /\ (Finished /\ ~progress.aborted) =>
          \A c \in AllClosures : c.title \in Titles(invoked)

\* C4: the same registered tests end with the same count, failed, per-file
\* failure counts, skipped and exit status under every verbosity.
C4_VerbosityEquivalence ==
    Finished =>
        \A v \in Verbosity :
            outcome(atStart, v) =
                [count |-> progress.count, failed |-> progress.failed,
                 fails |-> progress.fails, skipped |-> progress.skipped,
                 exit |-> exitCode]

\* C5: every run renders the buffered logs and the aggregate line and then
\* calls cleanup() exactly once, after the report and before the process
\* terminates.
C5_ReportThenCleanupOnce ==
    /\ cleanupCalls > 0 => Reported
    /\ Finished => (Reported /\ cleanupCalls = 1)

\* C7: once the abort flag is set no further test closure is started and
\* count does not increase.
C7_NoTestAfterAbort ==
    [][progress.aborted => (invoked' = invoked /\ progress'.count = progress.count)]_vars

\* an aborted, finished run that left registered tests uninvoked
C7_Witness ==
    /\ Finished
    /\ progress.aborted
    /\ Len(invoked) > 0
    /\ \E c \in AllClosures : c.title \notin Titles(invoked)

\* C8: whenever an aborted run is reported, the aggregate line is the
\* "aborted" line, not the all-passed or N-of-M-failed line, and the exit
\* status is 2, whether or not a test failed before the abort.
C8_AbortedReport ==
    (progress.aborted /\ Reported) =>
        /\ \A i \in 1..Len(out) : out[i].kind \in AggregateKinds => out[i].kind = "abortedLine"
        /\ Finished => exitCode = 2

\* C9: tests run one at a time, files in the order their keys first
\* appeared, the tests of a file in registration order, each test started
\* only after the previous one has completed, also when the registrations
\* of different files were interleaved.
C9_SequentialOrder ==
    /\ Len(ended) <= Len(invoked)
    /\ Len(invoked) <= Len(ended) + 1
    /\ \A i \in 1..Len(ended) : ended[i].title = invoked[i]
    /\ \A i, j \in 1..Len(invoked) :
          i < j =>
            LET ci == ClosureOf(invoked[i])
                cj == ClosureOf(invoked[j])
            IN IF ci.file = cj.file
               THEN ci.title < cj.title
               ELSE FirstTitle(ci.file) < FirstTitle(cj.file)

\* a complete run of three tests whose registrations alternated between two files
C9_Witness ==
    /\ Finished
    /\ Len(invoked) = 3
    /\ Len(ended) = 3
    /\ ClosureOf(1).file = ClosureOf(3).file
    /\ ClosureOf(1).file # ClosureOf(2).file
    /\ invoked = <<1, 3, 2>>

\* C10: test.skip(message) acts at call time: skipped grows by exactly 1,
\* exactly one log entry is appended, no test is registered, and count,
\* failed and the per-file failure counts are unchanged.
C10_SkipImmediate ==
    [][op' = "skip" =>
        /\ progress'.skipped = progress.skipped + 1
        /\ Len(progress'.logs) = Len(progress.logs) + 1
        /\ SubSeq(progress'.logs, 1, Len(progress.logs)) = progress.logs
        /\ progress'.logs[Len(progress'.logs)].message.kind = "skipped"
        /\ progress'.tests = progress.tests
        /\ progress'.count = progress.count
        /\ progress'.failed = progress.failed
        /\ progress'.fails = progress.fails]_vars

\* test.skip has just been called after a test was registered
C10_Witness ==
    /\ op = "skip"
    /\ progress.skipped = 1
    /\ Registered > 0
    /\ Len(progress.logs) = 1

\* C6: for every matcher and value, when the matcher's predicate is true
\* the plain call returns and the negated call throws; when it is false the
\* plain call throws and the negated call returns.
C6_MatcherNegation ==
    (call.m \in Matchers /\ call.error \notin {"usage", "TypeError"}) =>
        LET e == objects[call.obj]
            predicate == ~failCondition(call.m, e.value, call.arg)
        IN call.threw <=> (IF e.negate THEN predicate ELSE ~predicate)

\* C11: in every reachable state of the log sequence, every title entry
\* (isTitle = true, other than the separators themselves) is immediately
\* followed by a separator entry of dashes as long as the title's message.
C11_TitleSeparator ==
    \A i \in 1..Len(progress.logs) :
        (progress.logs[i].title /\ progress.logs[i].message.kind # "dashes") =>
            /\ i < Len(progress.logs)
            /\ progress.logs[i + 1].message.kind = "dashes"
            /\ progress.logs[i + 1].message.len = progress.logs[i].message.len

\* C12: every matcher, on success, returns the assertion object it was
\* called on, toHave with a single (non-array) key or element included.
C12_ChainReturn ==
    (call.m \in Matchers /\ ~call.threw) => call.returned = call.obj

\* a value that is neither an array nor an object
InvalidTarget(v) == typeOf(v) # "object" \/ v.t = "null"

\* C13: toMatch with a non-regex argument, toHave on a target that is not
\* an array or object, and expect with fewer than two arguments throw,
\* on the plain and on the negated assertion alike.
C13_UsageError ==
    /\ (call.m = "expect" /\ call.nargs < 2) => call.threw
    /\ (call.m = "toMatch" /\ call.arg.t # "regex") => call.threw
    /\ (call.m = "toHave" /\ InvalidTarget(objects[call.obj].value)) => call.threw

\* C16: the error a failing matcher throws carries a message with the
\* assertion's name, the expected condition and the actual value.
C16_FailureMessage ==
    call.error = "assertion" =>
        call.message.name /\ call.message.expected /\ call.message.actual

\* C14: a plain toHave given an array of items, on an array or object,
\* succeeds only when the target has every item, and otherwise fails
\* citing the first item, in array order, that the target lacks.
C14_FirstMissing ==
    (/\ call.m = "toHave"
     /\ isArray(call.arg)
     /\ ~objects[call.obj].negate
     /\ ~InvalidTarget(objects[call.obj].value)) =>
        LET v == objects[call.obj].value
            items == itemsOf(call.arg)
            missing == {i \in 1..Len(items) : ~hasItem(v, items[i])}
        IN /\ call.threw <=> missing # {}
           /\ call.threw =>
                \E i \in missing :
                    /\ call.cites = items[i]
                    /\ \A j \in 1..(i - 1) : j \notin missing

\* toHave(['a', 'b']) on an object that has 'a' but not 'b' has failed citing 'b'
C14_Witness ==
    /\ call.m = "toHave"
    /\ call.arg = Val("array", <<1, 2>>, 2)
    /\ objects[call.obj] = Expect("x", Val("object", <<1>>, 1), FALSE, "undefined", config)
    /\ call.threw
    /\ call.cites = Str(<<2>>)

\* C15: a plain toBeEmpty succeeds exactly for the empty string, the empty
\* array and the empty object, and fails for every other value.
C15_ToBeEmpty ==
    (call.m = "toBeEmpty" /\ ~objects[call.obj].negate) =>
        LET v == objects[call.obj].value
        IN ~call.threw <=> (v.t \in {"string", "array", "object"} /\ v.x = <<>>)

\* C17: a matcher invocation that throws appends no log entry; one that
\* succeeds appends exactly one entry when the assertion's verbosity is
\* Detailed and none under any other verbosity.
C17_LogOnSuccess ==
    [][op' = "matcher" =>
        IF ~call'.threw /\ objects[call'.obj].verbose = VERBOSE_TYPE_DETAILED
        THEN /\ Len(progress'.logs) = Len(progress.logs) + 1
             /\ SubSeq(progress'.logs, 1, Len(progress.logs)) = progress.logs
        ELSE progress'.logs = progress.logs]_vars

\* a matcher has succeeded on an assertion made Detailed by expect()'s third
\* argument while the run is not, and has appended its entry
C17_Witness ==
    /\ op = "matcher"
    /\ ~call.threw
    /\ objects[call.obj].verbose = VERBOSE_TYPE_DETAILED
    /\ config.verbose # VERBOSE_TYPE_DETAILED
    /\ Len(progress.logs) = 1

\* C18: no matcher invocation, passing or failing, once or repeatedly,
\* changes count, failed, skipped or a per-file failure count; count changes
\* only by one when a test is invoked and failed only by one when a test's
\* body has thrown.
C18_CountersAtTestBoundary ==
    [][/\ op' = "matcher" =>
            /\ progress'.count = progress.count
            /\ progress'.failed = progress.failed
            /\ progress'.skipped = progress.skipped
            /\ progress'.fails = progress.fails
       /\ progress'.count # progress.count =>
            op' = "invoke" /\ progress'.count = progress.count + 1
       /\ progress'.failed # progress.failed =>
            op' = "bodyEnd" /\ progress'.failed = progress.failed + 1]_vars

\* a passing, logged matcher call has been followed by a failing one
C18_Witness ==
    /\ op = "matcher"
    /\ ncalls = 2
    /\ call.error = "assertion"
    /\ Len(progress.logs) = 1
    /\ progress.count = 0 /\ progress.failed = 0

SkippedLines == {i \in 1..Len(out) : out[i].kind = "skippedLine"}

\* C19: a finished run prints the skipped-count line, showing the number
\* of skips, exactly when skipped > 0; a run with skips and no registered
\* test that was not aborted exits with 0; and the skips change neither
\* count, failed nor the exit status of the run.
C19_SkippedLine ==
    Finished =>
        /\ SkippedLines # {} <=> progress.skipped > 0
        /\ \A i \in SkippedLines : out[i].a = progress.skipped
        /\ (Registered = 0 /\ progress.skipped > 0 /\ ~progress.aborted) => exitCode = 0
        /\ LET without == outcome([atStart EXCEPT !.skipped = 0], config.verbose)
           IN /\ progress.count = without.count
              /\ progress.failed = without.failed
              /\ exitCode = without.exit

AggregateLines == {i \in 1..Len(out) : out[i].kind \in AggregateKinds}

\* the rendered title lines of a file
FileLines(file) ==
    {i \in 1..Len(out) :
        /\ out[i].kind = "entry"
        /\ out[i].message.kind \in {"file", "filePassed", "fileFailed"}
        /\ out[i].message.file = file}

\* C20: a finished run in which no registered test throws and no abort was
\* signalled exits with 0, renders every file's title line as success on
\* stdout, and prints one aggregate line, "All N tests passed!", with N the
\* number of tests registered over all files.
C20_AllPassed ==
    (Finished /\ Throwing = 0 /\ ~progress.aborted) =>
        /\ exitCode = 0
        /\ \A k \in 1..Len(progress.tests) :
              /\ FileLines(progress.tests[k].file) # {}
              /\ \A i \in FileLines(progress.tests[k].file) :
                    out[i].message.kind = "filePassed" /\ out[i].stream = "stdout"
        /\ Cardinality(AggregateLines) = 1
        /\ \A i \in AggregateLines : out[i].kind = "passedLine" /\ out[i].a = Registered

\* a run of three passing tests in two files has finished
C20_Witness ==
    /\ Finished
    /\ Throwing = 0
    /\ ~progress.aborted
    /\ Len(progress.tests) = 2
    /\ Registered = 3
    /\ exitCode = 0

\* the log entries that are the title of a file, and the tests of a file
\* that have ended
TitleEntries(file) ==
    {i \in 1..Len(progress.logs) :
        /\ progress.logs[i].message.kind \in {"file", "filePassed", "fileFailed"}
        /\ progress.logs[i].message.file = file}

EndedIn(file) == {i \in 1..Len(ended) : ClosureOf(ended[i].title).file = file}

\* C21: once the run has ended, the title entry of every file of which a
\* test was executed is in the fail form (kind Error) exactly when a test
\* of that file failed, and in the pass form (kind Log) otherwise.
C21_FileTitle ==
    Finished =>
        \A k \in 1..Len(progress.tests) :
            LET file == progress.tests[k].file
            IN EndedIn(file) # {} =>
                /\ Cardinality(TitleEntries(file)) = 1
                /\ \A i \in TitleEntries(file) :
                      IF \E j \in EndedIn(file) : ended[j].threw
                      THEN progress.logs[i].message.kind = "fileFailed"
                              /\ progress.logs[i].type = "error"
                      ELSE progress.logs[i].message.kind = "filePassed"
                              /\ progress.logs[i].type = "log"

\* C22: abort is cooperative: a test that is running when abort is
\* signalled keeps running, and when its body ends it is recorded as ended,
\* it is counted in count, it is counted in failed if it threw, and (unless
\* the verbosity is Summary) the runner resumes after it.
C22_CooperativeAbort ==
    [][/\ (op' = "abort" /\ pc = "body") =>
            /\ pc' = "body"
            /\ closure' = closure
            /\ invoked' = invoked /\ ended' = ended
       /\ (op' = "bodyEnd" /\ progress.aborted) =>
            /\ ended' = Append(ended, [title |-> closure.c.title,
                                       threw |-> closure.c.fn.throws])
            /\ progress'.count = Len(invoked)
            /\ progress'.failed = progress.failed + (IF closure.c.fn.throws THEN 1 ELSE 0)
            /\ config.verbose # VERBOSE_TYPE_SUMMARY => pc' = "resumed"]_vars

\* a test that signalled abort and then threw has ended and is counted
C22_Witness ==
    /\ op = "bodyEnd"
    /\ pc = "resumed"
    /\ progress.aborted
    /\ closure.c.fn.aborts /\ closure.c.fn.throws
    /\ progress.count = 1 /\ progress.failed = 1

\* C23: in every step of registration and run the log sequence does not
\* get shorter and count, failed, skipped and each per-file failure count
\* do not decrease; when a test's body has thrown, count keeps the
\* increment made before the throw and every log entry but the test's own
\* pending entry is what it was.
C23_Monotonic ==
    [][/\ Len(progress'.logs) >= Len(progress.logs)
       /\ progress'.count >= progress.count
       /\ progress'.failed >= progress.failed
       /\ progress'.skipped >= progress.skipped
       /\ \A f \in DOMAIN progress.fails :
             f \in DOMAIN progress'.fails /\ progress'.fails[f] >= progress.fails[f]
       /\ (op' = "bodyEnd" /\ closure.c.fn.throws) =>
             /\ progress'.count = progress.count
             /\ \A i \in 1..Len(progress.logs) :
                   i # closure.index + 1 => progress'.logs[i] = progress.logs[i]]_vars

\* a test has failed after another one passed, with both their entries kept
C23_Witness ==
    /\ op = "bodyEnd"
    /\ Len(ended) = 2
    /\ ~ended[1].threw /\ ended[2].threw
    /\ progress.count = 2 /\ progress.failed = 1
    /\ Len(progress.logs) >= 4

\* the list registered under a file key, empty when the key is absent
ListOf(T, file) == IF HasKey(T, file) THEN T[KeyPos(T, file)].list ELSE <<>>

FailsOf(F, file) == IF file \in DOMAIN F THEN F[file] ELSE 0

\* C24: test(title, fn) appends exactly one closure to the list of the file
\* key configured at the call ("default" when none is) and changes no other
\* list, counter or log; when that closure fails later, the failure is
\* counted under that same key, whatever config.file is by then.
C24_Registration ==
    [][/\ op' = "test" =>
            LET file == IF config.file # NoFile THEN config.file ELSE "default"
            IN /\ Len(ListOf(progress'.tests, file)) = Len(ListOf(progress.tests, file)) + 1
               /\ SubSeq(ListOf(progress'.tests, file), 1, Len(ListOf(progress.tests, file)))
                     = ListOf(progress.tests, file)
               /\ \A f \in FileKeys \ {file} :
                     ListOf(progress'.tests, f) = ListOf(progress.tests, f)
                        /\ (HasKey(progress'.tests, f) <=> HasKey(progress.tests, f))
               /\ [progress' EXCEPT !.tests = progress.tests] = progress
       /\ (op' = "bodyEnd" /\ closure.c.fn.throws) =>
            LET file == progress.tests[fileIdx].file
            IN /\ closure.c \in Titles(ListOf(progress.tests, file))
               /\ FailsOf(progress'.fails, file) = FailsOf(progress.fails, file) + 1
               /\ \A f \in FileKeys \ {file} :
                     FailsOf(progress'.fails, f) = FailsOf(progress.fails, f)
                        /\ (f \in DOMAIN progress'.fails <=> f \in DOMAIN progress.fails)]_vars

\* a test registered while no file was configured has failed while
\* config.file names a test file, and is counted under "default"
C24_Witness ==
    /\ op = "bodyEnd"
    /\ closure.c.fn.throws
    /\ closure.c.file = "default"
    /\ config.file \in TestFiles
    /\ DOMAIN progress.fails = {"default"}
    /\ progress.fails["default"] = 1

\* C25: no test closure is invoked more than once, and in a finished run
\* without abort every registered closure has been invoked (exactly once).
C25_InvokedOnce ==
    /\ \A i, j \in 1..Len(invoked) : i # j => invoked[i] # invoked[j]
    /\ (Finished /\ ~progress.aborted) =>
          /\ Len(invoked) = Registered
          /\ \A c \in AllClosures : \E i \in 1..Len(invoked) : invoked[i] = c.title

\* C26: an access of .not returns a new object, distinct from every
\* existing one, with the name and value of the object it was accessed on
\* and negate set, and changes no existing object; a matcher called on the
\* object expect() returned does what it does on a never-negated assertion,
\* however often .not was accessed before.
C26_NotIsFresh ==
    [][/\ op' = "not" =>
            /\ call'.returned = Len(objects) + 1
            /\ Len(objects') = Len(objects) + 1
            /\ SubSeq(objects', 1, Len(objects)) = objects
            /\ objects'[call'.returned].name = objects[call'.obj].name
            /\ objects'[call'.returned].value = objects[call'.obj].value
            /\ objects'[call'.returned].negate
       /\ (op' = "matcher" /\ call'.obj = 1) =>
            /\ objects' = objects
            /\ ~objects[1].negate
            /\ call' = matcher(Expect("x", objects[1].value, FALSE, objects[1].verbose, config),
                               1, call'.m, call'.arg)]_vars

\* after an access of .not, a matcher called on the original assertion has
\* failed as a plain assertion does
C26_Witness ==
    /\ op = "matcher"
    /\ Len(objects) = 2
    /\ call.obj = 1
    /\ call.error = "assertion"

\* C27: whenever no test is executing (between two tests, and at the end
\* of the run) failed is the sum of the per-file failure counts and count
\* is the number of test closures invoked so far.
C27_CountersAgree ==
    pc # "body" =>
        /\ progress.failed = SumFails(progress.fails, DOMAIN progress.fails)
        /\ progress.count = Len(invoked)

\* a finished run with one failure in each of two files
C27_Witness ==
    /\ Finished
    /\ DOMAIN progress.fails = FileKeys
    /\ progress.failed = 2
    /\ progress.count = 3

Blanks(logs) ==
    Cardinality({i \in 1..Len(logs) : logs[i].message.kind = "blank" /\ ~logs[i].title})

C30_RenderOnce ==
    [][/\ op' = "report" =>
            LET n == Len(progress.logs)
            IN /\ out = <<>>
               /\ Len(out') >= n
               /\ \A i \in 1..n :
                     /\ out'[i].kind = "entry"
                     /\ out'[i].message = progress.logs[i].message
                     /\ progress.logs[i].type \in {"log", "error"}
                     /\ out'[i].stream = IF progress.logs[i].type = "log"
                                         THEN "stdout" ELSE "stderr"
               /\ \A i \in (n + 1)..Len(out') : out'[i].kind # "entry"
               /\ Len(ended) = Len(invoked)
               /\ fileIdx > Len(progress.tests) \/ progress.aborted
       /\ out # <<>> => (invoked' = invoked /\ ended' = ended /\ progress' = progress)]_vars

\* a report has been made of a buffer holding Log and Error entries
C30_Witness ==
    /\ op = "report"
    /\ Len(progress.logs) >= 3
    /\ \E i \in 1..Len(progress.logs) : out[i].stream = "stderr"
    /\ \E i \in 1..Len(progress.logs) : out[i].stream = "stdout"


\* ------------------------------------------------------------ C31, C32
\* the position of the last cleanup before call n, 0 when there is none
PrevCleanup(n) ==
    LET before == {i \in 1..(n - 1) : web.calls[i].name = "cleanup"}
    IN IF before = {} THEN 0 ELSE CHOOSE i \in before : \A j \in before : j <= i

\* the calls made between the cleanup before call n and call n
SinceCleanup(n) == (PrevCleanup(n) + 1)..(n - 1)

\* what a call of setup was given: the url, else the appPath, else neither
OptionsKey(c) ==
    IF c.url # "" THEN <<"url", c.url>>
    ELSE IF c.appPath # "" THEN <<"appPath", c.appPath>>
    ELSE <<"neither", "">>

\* the successful calls of setup since the last cleanup with the options of call n
EarlierSetups(n) ==
    {i \in SinceCleanup(n) : /\ web.calls[i].name = "setup"
                             /\ ~web.calls[i].threw
                             /\ OptionsKey(web.calls[i]) = OptionsKey(web.calls[n])}

\* C31: once cleanup() has resolved, every browser that setup() launched
\* since the previous cleanup is closed, the setup cache is empty and the
\* global page and browser handles are unset.
C31_CleanupClosesEveryBrowser ==
    LET n == Len(web.calls)
    IN (n > 0 /\ web.calls[n].name = "cleanup") =>
          /\ \A i \in SinceCleanup(n) :
                 web.calls[i].launched # 0 => ~web.browsers[web.calls[i].launched]
          /\ web.setupCache = <<>>
          /\ web.browser = 0
          /\ web.browserPage = 0

\* C32: between two cleanups a call of setup() with the options of an
\* earlier successful call returns that call's result object and launches
\* no browser; a call whose options no successful call has had since the
\* last cleanup, a failed one included, launches one unless the launch
\* itself fails.
C32_SetupCachedPerKey ==
    LET n == Len(web.calls)
        c == web.calls[n]
        first == CHOOSE i \in EarlierSetups(n) : \A j \in EarlierSetups(n) : i <= j
    IN (n > 0 /\ c.name = "setup") =>
          IF EarlierSetups(n) # {}
          THEN c.returned = web.calls[first].returned /\ c.launched = 0 /\ ~c.threw
          ELSE /\ c.launched # 0 <=> c.outcome # "notLaunched"
               /\ c.threw <=> c.outcome # "ok"
               /\ ~c.threw => c.returned = c.launched

\* a third call with the same url is served from the cache after the first
\* one failed and the second one launched the browser
C32_Witness ==
    LET n == Len(web.calls)
    IN /\ n >= 3
       /\ web.calls[n].name = "setup"
       /\ EarlierSetups(n) # {}
       /\ \E i \in SinceCleanup(n) : /\ web.calls[i].threw
                                     /\ web.calls[i].launched # 0
                                     /\ OptionsKey(web.calls[i]) = OptionsKey(web.calls[n])
       /\ Len(web.browsers) = 2

\* ------------------------------------------------------------ C33
\* the parts of the combination the call was given
KeyParts == split(normalizeKeys(kp.keys))

\* the parts that name a main key: neither empty nor a modifier
MainKeys == {i \in DOMAIN KeyParts : KeyParts[i] # <<>> /\ ~isModifier(KeyParts[i])}

\* the keyboard's name of a modifier, and its place in the pressing order
ModifierKey == [control |-> "Control", shift |-> "Shift", alt |-> "Alt", meta |-> "Meta"]
ModifierRank == [Control |-> 1, Shift |-> 2, Alt |-> 3, Meta |-> 4]

\* the combinations that differ from the given one in their separators only
SeparatorVariants ==
    {[i \in DOMAIN kp.keys |-> IF kp.keys[i] \in Separators THEN f[i] ELSE kp.keys[i]] :
        f \in [DOMAIN kp.keys -> Separators]}

\* C33: with a page at hand, keyPress(keys) for a combination of modifiers
\* and one main key sends each named modifier down in the order Control,
\* Shift, Alt, Meta, then the main key down and up, then the modifiers up in
\* the reverse order, so that every key pressed is released; '-' and '+'
\* are interchangeable; a combination that names no main key or more than
\* one is rejected before any key event is sent.
C33_KeyPressOrder ==
    (kp.called /\ kp.page) =>
        LET ev == kp.events
            named == {ModifierKey[m] : m \in modifiersOf(KeyParts)}
            n == Cardinality(named)
        IN /\ \A k \in SeparatorVariants :
                  /\ keyPress(k, TRUE).events = ev
                  /\ keyPress(k, TRUE).threw = kp.threw
           /\ Cardinality(MainKeys) # 1 => kp.threw /\ ev = <<>>
           /\ (Cardinality(MainKeys) = 1 /\ \A i \in DOMAIN KeyParts : KeyParts[i] # <<>>) =>
                  /\ ~kp.threw
                  /\ Len(ev) = 2 * n + 2
                  /\ {ev[i].key : i \in 1..n} = named
                  /\ \A i \in 1..n : ev[i].type = "down"
                  /\ \A i, j \in 1..n : i < j => ModifierRank[ev[i].key] < ModifierRank[ev[j].key]
                  /\ ev[n + 1].type = "down" /\ ev[n + 1].key \notin DOMAIN ModifierRank
                  /\ ev[n + 2] = KeyUp(ev[n + 1].key)
                  /\ \A i \in 1..n : ev[n + 2 + i] = KeyUp(ev[n + 1 - i].key)
                  /\ \A i \in 1..Len(ev) : ev[i].type = "down" =>
                         \E j \in (i + 1)..Len(ev) : ev[j] = KeyUp(ev[i].key)

\* ------------------------------------------------------------ C34
\* C34: in every reachable state failed <= count <= the number of tests
\* registered, and a file has a failure count only if it has registered
\* tests, the count being at most the number of them.
C34_CountersBounded ==
    /\ progress.failed <= progress.count
    /\ progress.count <= Registered
    /\ \A f \in DOMAIN progress.fails :
           /\ HasKey(progress.tests, f)
           /\ Len(ListOf(progress.tests, f)) > 0
           /\ progress.fails[f] <= Len(ListOf(progress.tests, f))

\* a run in which one test has failed, another has passed and a third is
\* still to be invoked
C34_Witness ==
    /\ pc \in {"tests", "resumed"}
    /\ progress.failed = 1
    /\ progress.count = 2
    /\ Registered = 3
    /\ \E f \in DOMAIN progress.fails : progress.fails[f] = 1

\* ------------------------------------------------------------ C35, C36
\* C35: addLog returns the index of the entry it added, and an index keeps
\* naming the same entry: no step removes or moves an entry, and a step
\* changes an entry only if it is a setLog of that entry's index (or of the
\* title entry whose separator line it is), whatever was appended since.
C35_IndexNamesEntry ==
    [][/\ op' = "addLog" =>
              /\ store'.returned = Len(progress.logs)
              /\ Len(progress'.logs) > store'.returned
              /\ progress'.logs[store'.returned + 1].title \in BOOLEAN
              /\ \E message \in StoreMessages, type \in StoreTypes :
                     progress'.logs[store'.returned + 1] =
                         [type |-> type, message |-> message,
                          title |-> progress'.logs[store'.returned + 1].title]
       /\ op' \in {"addLog", "setLog"} =>
              /\ Len(progress'.logs) >= Len(progress.logs)
              /\ \A i \in 1..Len(progress.logs) :
                     \/ progress'.logs[i] = progress.logs[i]
                     \/ /\ op' = "setLog"
                        /\ ~store'.threw
                        /\ \/ i = store'.index + 1
                           \/ i = store'.index + 2 /\ progress.logs[i - 1].title
                        /\ progress'.logs[i].title = progress.logs[i].title]_vars

\* an entry opened first is rewritten after another entry was appended, and
\* the other entry is as it was
C35_Witness ==
    /\ op = "setLog"
    /\ ~store.threw
    /\ store.index = 0
    /\ Len(progress.logs) >= 2
    /\ ~progress.logs[1].title
    /\ progress.logs[1].type = "error"
    /\ progress.logs[2].type = "log"

\* C36: setLog with an index that is negative or not less than the length
\* of the log raises an error and leaves the log and every counter as they
\* were.
C36_OutOfBoundsThrows ==
    [][(op' = "setLog" /\ (store'.index < 0 \/ store'.index >= Len(progress.logs))) =>
           /\ store'.threw
           /\ progress' = progress]_vars

\* setLog was called with the length of a log that has entries
C36_Witness ==
    /\ op = "setLog"
    /\ store.threw
    /\ Len(progress.logs) >= 2
    /\ store.index = Len(progress.logs)
====
